---- MODULE Spec2Model ----
(***************************************************************************)
(* Model of javascripts/background_scripts/posting_process.js: the         *)
(* background script that pairs a host tab with a posting-application tab, *)
(* hands the posting application its initial content and relays the        *)
(* generated link back to the host tab.                                    *)
(*                                                                         *)
(* Every handler of the script runs to completion on the event loop, so    *)
(* each handler is one atomic action.  A handler is written as an operator *)
(* on a "store" record holding the script's globals, the surface-creation  *)
(* callbacks in flight, and the browser calls the handler issued (out).    *)
(***************************************************************************)
EXTENDS Integers, Sequences, FiniteSets, TLC

\* ------------------------------------------------------------------ bounds
NumHostTabs == 2        \* web tabs open when the script starts (ids 1..NumHostTabs)
MaxTabId == 4           \* tab ids the browser hands out in one run
MaxPendingCreates == 2  \* chrome.windows.create callbacks in flight at once

\* ------------------------------------------------------- values of the code
undefined == 0                       \* JS undefined, for tab ids (real ids are >= 1)
Undefined == "undefined"             \* JS undefined, for strings and absent fields
null == "null"                       \* initial value of messageSecret
DefaultPostingDomain == "https://privlyalpha.org"
CustomPostingDomain == "https://custom.example"
ExtensionUrl == "chrome-extension://"
WebUrl == "https://"

TabIds == 1..MaxTabId
Texts == {"hello"}                             \* info.selectionText, when present
Secrets == {"s1", "s2"}                         \* data of a messageSecret message
Urls == {"https://x/p/abc", "https://x/p/def"}  \* data of a privlyUrl message
ApplicationNames == {"ZeroBin", "PlainPost", "Index"}
Handlers == {"messageSecret", "initialContent", "privlyUrl"}

VARIABLES
  postingResultTab,                 \* id of the recorded host tab, or undefined
  postingApplicationTabId,          \* id of the posting tab, or undefined
  postingApplicationStartingValue,  \* selected text handed to the posting application
  messageSecret,                    \* secret registered by the posting application
  localStorage,                     \* localStorage["posting_content_server_url"]
  pendingCreates,                   \* sourceTab of each chrome.windows.create callback in flight
  out,                              \* browser calls issued by the handlers of the last event
  tabs,                             \* tabs that are open (no onRemoved delivered for them yet)
  nextTabId,                        \* next tab id the browser hands out
  url,                              \* url prefix of every tab handed out so far
  opener,                           \* for each posting tab: the sourceTab of the trigger that opened it
  ev,                               \* the event the handlers last ran for
  pendingInfos,                     \* selected text of the trigger behind each callback in flight
  openedWith,                       \* selected text of the trigger that opened the recorded posting tab
  toldPending                       \* tabs whose last {pendingPost: ...} message said true

vars == <<postingResultTab, postingApplicationTabId, postingApplicationStartingValue,
          messageSecret, localStorage, pendingCreates, out, tabs, nextTabId, url,
          opener, ev, pendingInfos, openedWith, toldPending>>

\* ------------------------------------------------- browser calls (effects)
Effect(op, tab, privlyUrl, pendingPost, secret, initialContent, handler, by) ==
  [op |-> op, tab |-> tab, privlyUrl |-> privlyUrl, pendingPost |-> pendingPost,
   secret |-> secret, initialContent |-> initialContent, handler |-> handler, by |-> by]

\* chrome.windows.create({url: .../<name>/new.html, ...}, callback)
WindowsCreate(name) ==
  Effect("windows.create", undefined, Undefined, Undefined, Undefined, Undefined, name, Undefined)
\* chrome.tabs.sendMessage(tab, {pendingPost: p})
SendPending(tab, p) ==
  Effect("tabs.sendMessage", tab, Undefined, p, Undefined, Undefined, Undefined, Undefined)
\* chrome.tabs.sendMessage(tab, {privlyUrl: u, pendingPost: false})
SendPrivlyUrl(tab, u) ==
  Effect("tabs.sendMessage", tab, u, "false", Undefined, Undefined, Undefined, Undefined)
\* chrome.tabs.update(tab, {selected: true})
TabsUpdate(tab) ==
  Effect("tabs.update", tab, Undefined, Undefined, Undefined, Undefined, Undefined, Undefined)
\* chrome.tabs.remove(tab)
TabsRemove(tab) ==
  Effect("tabs.remove", tab, Undefined, Undefined, Undefined, Undefined, Undefined, Undefined)
\* webkitNotifications.createNotification(...).show()
Notification ==
  Effect("notification", undefined, Undefined, Undefined, Undefined, Undefined, Undefined, Undefined)
\* sendResponse({secret: s, handler: "messageSecret"}) to the sender tab
SecretResponse(tab, s, by) ==
  Effect("sendResponse", tab, Undefined, Undefined, s, Undefined, "messageSecret", by)
\* sendResponse({secret: s, initialContent: c, handler: "initialContent"}) to the sender tab
ContentResponse(tab, s, c, by) ==
  Effect("sendResponse", tab, Undefined, Undefined, s, c, "initialContent", by)

\* ------------------------------------------------------------ the store
Store ==
  [postingResultTab |-> postingResultTab,
   postingApplicationTabId |-> postingApplicationTabId,
   postingApplicationStartingValue |-> postingApplicationStartingValue,
   messageSecret |-> messageSecret,
   localStorage |-> localStorage,
   pendingCreates |-> pendingCreates,
   out |-> <<>>]

Commit(s) ==
  /\ postingResultTab' = s.postingResultTab
  /\ postingApplicationTabId' = s.postingApplicationTabId
  /\ postingApplicationStartingValue' = s.postingApplicationStartingValue
  /\ messageSecret' = s.messageSecret
  /\ localStorage' = s.localStorage
  /\ pendingCreates' = s.pendingCreates
  /\ out' = s.out

\* requests, senders, context-menu infos and events
Request(handler, data, ask) == [handler |-> handler, data |-> data, ask |-> ask]
Sender(tab) == [tab |-> [id |-> tab, url |-> url[tab]]]
Info(selectionText) == [selectionText |-> selectionText]
Event(kind, tab, handler, data, text, app) ==
  [kind |-> kind, tab |-> tab, handler |-> handler, data |-> data, text |-> text, app |-> app]

\* The tabs that were last told {pendingPost: true}, after the calls in effects:
\* every chrome.tabs.sendMessage of the script carries a pendingPost field.
RECURSIVE Told(_, _)
Told(told, effects) ==
  IF effects = <<>> THEN told
  ELSE LET e == Head(effects)
           next == IF e.op # "tabs.sendMessage" THEN told
                   ELSE IF e.pendingPost = "true" THEN told \cup {e.tab}
                   ELSE told \ {e.tab}
       IN Told(next, Tail(effects))

\* The selected text postingHandler stores for a trigger.
SelectedText(text) == IF text # Undefined THEN text ELSE ""

RemoveAt(q, i) == [j \in 1..(Len(q) - 1) |-> IF j < i THEN q[j] ELSE q[j + 1]]

\* ------------------------------------------------------------- handlers
\* Mutant: postingHandler without the check that no posting tab is recorded.
postingHandler_Unguarded(s, info, sourceTab, postingApplicationName) ==
  [s EXCEPT
     !.localStorage = IF @ = Undefined THEN DefaultPostingDomain ELSE @,
     !.postingApplicationStartingValue =
        IF info.selectionText # Undefined THEN info.selectionText ELSE "",
     !.pendingCreates = Append(@, sourceTab),
     !.out = Append(@, WindowsCreate(postingApplicationName))]

\* postingHandler(info, sourceTab, postingApplicationName), up to the point
\* where chrome.windows.create has been called (its callback runs later).
postingHandler(s, info, sourceTab, postingApplicationName) ==
  IF s.postingApplicationTabId = undefined
  THEN [s EXCEPT
          !.localStorage = IF @ = Undefined THEN DefaultPostingDomain ELSE @,
          !.postingApplicationStartingValue =
             IF info.selectionText # Undefined THEN info.selectionText ELSE "",
          !.pendingCreates = Append(@, sourceTab),
          !.out = Append(@, WindowsCreate(postingApplicationName))]
  ELSE [s EXCEPT !.out = Append(@, Notification)]

\* Mutant: the callback starting every post with no secret.
windowCreated_ForgetsSecret(s, sourceTab, tabId) ==
  [s EXCEPT
     !.postingApplicationTabId = tabId,
     !.postingResultTab = sourceTab,
     !.messageSecret = null,
     !.out = Append(@, SendPending(sourceTab, "true"))]

\* The callback postingHandler passes to chrome.windows.create; tabId is
\* newWindow.tabs[0].id and sourceTab is the tab captured by the closure.
windowCreated(s, sourceTab, tabId) ==
  [s EXCEPT
     !.postingApplicationTabId = tabId,
     !.postingResultTab = sourceTab,
     !.out = Append(@, SendPending(sourceTab, "true"))]

\* Mutant: receiveNewPrivlyUrl without the check that a host tab is recorded.
receiveNewPrivlyUrl_NoHostCheck(s, request, sender) ==
  IF request.handler = "privlyUrl"
  THEN [s EXCEPT
          !.out = @ \o <<TabsUpdate(s.postingResultTab),
                         SendPrivlyUrl(s.postingResultTab, request.data),
                         TabsRemove(sender.tab.id)>>,
          !.postingApplicationTabId = undefined,
          !.postingResultTab = undefined]
  ELSE s

\* Mutant: receiveNewPrivlyUrl forgetting the host tab but not the posting tab.
receiveNewPrivlyUrl_KeepsApp(s, request, sender) ==
  IF request.handler = "privlyUrl" /\ s.postingResultTab # undefined
  THEN [s EXCEPT
          !.out = @ \o <<TabsUpdate(s.postingResultTab),
                         SendPrivlyUrl(s.postingResultTab, request.data),
                         TabsRemove(sender.tab.id)>>,
          !.postingResultTab = undefined]
  ELSE s

\* Mutant: receiveNewPrivlyUrl forgetting the posting tab but not the host tab.
receiveNewPrivlyUrl_KeepsHost(s, request, sender) ==
  IF request.handler = "privlyUrl" /\ s.postingResultTab # undefined
  THEN [s EXCEPT
          !.out = @ \o <<TabsUpdate(s.postingResultTab),
                         SendPrivlyUrl(s.postingResultTab, request.data),
                         TabsRemove(sender.tab.id)>>,
          !.postingApplicationTabId = undefined]
  ELSE s

\* Mutant: receiveNewPrivlyUrl removing the sender before it messages the host.
receiveNewPrivlyUrl_RemovesFirst(s, request, sender) ==
  IF request.handler = "privlyUrl" /\ s.postingResultTab # undefined
  THEN [s EXCEPT
          !.out = @ \o <<TabsRemove(sender.tab.id),
                         TabsUpdate(s.postingResultTab),
                         SendPrivlyUrl(s.postingResultTab, request.data)>>,
          !.postingApplicationTabId = undefined,
          !.postingResultTab = undefined]
  ELSE s

\* Mutant: receiveNewPrivlyUrl answering the sender instead of the host tab.
receiveNewPrivlyUrl_ToSender(s, request, sender) ==
  IF request.handler = "privlyUrl" /\ s.postingResultTab # undefined
  THEN [s EXCEPT
          !.out = @ \o <<TabsUpdate(sender.tab.id),
                         SendPrivlyUrl(sender.tab.id, request.data),
                         TabsRemove(sender.tab.id)>>,
          !.postingApplicationTabId = undefined,
          !.postingResultTab = undefined]
  ELSE s

receiveNewPrivlyUrl(s, request, sender) ==
  IF request.handler = "privlyUrl" /\ s.postingResultTab # undefined
  THEN [s EXCEPT
          !.out = @ \o <<TabsUpdate(s.postingResultTab),
                         SendPrivlyUrl(s.postingResultTab, request.data),
                         TabsRemove(sender.tab.id)>>,
          !.postingApplicationTabId = undefined,
          !.postingResultTab = undefined]
  ELSE s

\* String.prototype.indexOf(ExtensionUrl) === 0 on the two url prefixes of the model
StartsWithExtensionUrl(u) == u = ExtensionUrl

\* Mutant: initializeMessagePathway without the check of the sender's url.
initializeMessagePathway_NoOriginCheck(s, request, sender) ==
  IF request.handler = "messageSecret"
  THEN [s EXCEPT
          !.messageSecret = request.data,
          !.out = Append(@, SecretResponse(sender.tab.id, request.data,
                                           "initializeMessagePathway"))]
  ELSE IF request.handler = "initialContent"
          /\ sender.tab.id = s.postingApplicationTabId
  THEN [s EXCEPT
          !.out = Append(@, ContentResponse(sender.tab.id, s.messageSecret,
                                            s.postingApplicationStartingValue,
                                            "initializeMessagePathway"))]
  ELSE s

\* Mutant: initializeMessagePathway keeping the first secret it was given.
initializeMessagePathway_SetOnce(s, request, sender) ==
  IF request.handler = "messageSecret" /\ StartsWithExtensionUrl(sender.tab.url)
  THEN LET kept == IF s.messageSecret = null THEN request.data ELSE s.messageSecret
       IN [s EXCEPT
             !.messageSecret = kept,
             !.out = Append(@, SecretResponse(sender.tab.id, kept,
                                              "initializeMessagePathway"))]
  ELSE IF request.handler = "initialContent"
          /\ sender.tab.id = s.postingApplicationTabId
  THEN [s EXCEPT
          !.out = Append(@, ContentResponse(sender.tab.id, s.messageSecret,
                                            s.postingApplicationStartingValue,
                                            "initializeMessagePathway"))]
  ELSE s

initializeMessagePathway(s, request, sender) ==
  IF request.handler = "messageSecret" /\ StartsWithExtensionUrl(sender.tab.url)
  THEN [s EXCEPT
          !.messageSecret = request.data,
          !.out = Append(@, SecretResponse(sender.tab.id, request.data,
                                           "initializeMessagePathway"))]
  ELSE IF request.handler = "initialContent"
          /\ sender.tab.id = s.postingApplicationTabId
  THEN [s EXCEPT
          !.out = Append(@, ContentResponse(sender.tab.id, s.messageSecret,
                                            s.postingApplicationStartingValue,
                                            "initializeMessagePathway"))]
  ELSE s

\* Mutant: sendInitialContent handing the starting value to every sender.
sendInitialContent_Leaky(s, request, sender) ==
  IF request.handler = "initialContent"
  THEN [s EXCEPT
          !.out = Append(@, ContentResponse(sender.tab.id, s.messageSecret,
                                            s.postingApplicationStartingValue,
                                            "sendInitialContent"))]
  ELSE s

sendInitialContent(s, request, sender) ==
  IF request.handler = "initialContent"
     /\ sender.tab.id = s.postingApplicationTabId
  THEN [s EXCEPT
          !.out = Append(@, ContentResponse(sender.tab.id, s.messageSecret,
                                            s.postingApplicationStartingValue,
                                            "sendInitialContent"))]
  ELSE IF request.handler = "initialContent"
  THEN [s EXCEPT
          !.out = Append(@, ContentResponse(sender.tab.id, s.messageSecret, "",
                                            "sendInitialContent"))]
  ELSE s

\* The anonymous chrome.runtime.onMessage listener: info is 0, so
\* info.selectionText is undefined.
newPostListener(s, request, sender) ==
  IF request.ask = "newPost"
  THEN postingHandler(s, Info(Undefined), sender.tab.id, "ZeroBin")
  ELSE s

\* Mutant: tabRemoved without the early return and with a plain else for the
\* host branch.
tabRemoved_Unguarded(s, tabId) ==
  IF tabId = s.postingApplicationTabId
  THEN [s EXCEPT
          !.out = Append(@, SendPending(s.postingResultTab, "false")),
          !.postingResultTab = undefined,
          !.postingApplicationTabId = undefined,
          !.postingApplicationStartingValue = ""]
  ELSE [s EXCEPT
          !.out = Append(@, TabsRemove(s.postingApplicationTabId)),
          !.postingResultTab = undefined,
          !.postingApplicationTabId = undefined,
          !.postingApplicationStartingValue = ""]

\* Mutant: tabRemoved treating the closure of any other tab as the host's.
tabRemoved_AnyClosure(s, tabId) ==
  IF s.postingResultTab = undefined \/ s.postingApplicationTabId = undefined
  THEN s
  ELSE IF tabId = s.postingApplicationTabId
  THEN [s EXCEPT
          !.out = Append(@, SendPending(s.postingResultTab, "false")),
          !.postingResultTab = undefined,
          !.postingApplicationTabId = undefined,
          !.postingApplicationStartingValue = ""]
  ELSE [s EXCEPT
          !.out = Append(@, TabsRemove(s.postingApplicationTabId)),
          !.postingResultTab = undefined,
          !.postingApplicationTabId = undefined,
          !.postingApplicationStartingValue = ""]

\* Mutant: tabRemoved resetting the state without telling the host tab.
tabRemoved_Silent(s, tabId) ==
  IF s.postingResultTab = undefined \/ s.postingApplicationTabId = undefined
  THEN s
  ELSE IF tabId = s.postingApplicationTabId \/ tabId = s.postingResultTab
  THEN [s EXCEPT
          !.out = IF tabId = s.postingApplicationTabId
                  THEN @ ELSE Append(@, TabsRemove(s.postingApplicationTabId)),
          !.postingResultTab = undefined,
          !.postingApplicationTabId = undefined,
          !.postingApplicationStartingValue = ""]
  ELSE s

\* Mutant: tabRemoved handling only the closure of the host tab.
tabRemoved_HostOnly(s, tabId) ==
  IF s.postingResultTab = undefined \/ s.postingApplicationTabId = undefined
  THEN s
  ELSE IF tabId = s.postingResultTab
  THEN [s EXCEPT
          !.out = Append(@, TabsRemove(s.postingApplicationTabId)),
          !.postingResultTab = undefined,
          !.postingApplicationTabId = undefined,
          !.postingApplicationStartingValue = ""]
  ELSE s

tabRemoved(s, tabId) ==
  IF s.postingResultTab = undefined \/ s.postingApplicationTabId = undefined
  THEN s
  ELSE IF tabId = s.postingApplicationTabId
  THEN [s EXCEPT
          !.out = Append(@, SendPending(s.postingResultTab, "false")),
          !.postingResultTab = undefined,
          !.postingApplicationTabId = undefined,
          !.postingApplicationStartingValue = ""]
  ELSE IF tabId = s.postingResultTab
  THEN [s EXCEPT
          !.out = Append(@, TabsRemove(s.postingApplicationTabId)),
          !.postingResultTab = undefined,
          !.postingApplicationTabId = undefined,
          !.postingApplicationStartingValue = ""]
  ELSE s

\* chrome.extension.onMessage and chrome.runtime.onMessage are the same event:
\* the four listeners run in the order they were added, in one event-loop turn.
onMessage(s, request, sender) ==
  newPostListener(
    sendInitialContent(
      receiveNewPrivlyUrl(
        initializeMessagePathway(s, request, sender), request, sender),
      request, sender),
    request, sender)

\* ----------------------------------------------------------------- state
Init ==
  /\ postingResultTab = undefined
  /\ postingApplicationTabId = undefined
  /\ postingApplicationStartingValue = ""
  /\ messageSecret = null
  /\ localStorage = Undefined    \* a fresh profile: no content server configured
  /\ pendingCreates = <<>>
  /\ out = <<>>
  /\ tabs = 1..NumHostTabs
  /\ nextTabId = NumHostTabs + 1
  /\ url = [t \in 1..NumHostTabs |-> WebUrl]
  /\ opener = <<>>
  /\ ev = Event("init", undefined, Undefined, Undefined, Undefined, Undefined)
  /\ pendingInfos = <<>>
  /\ openedWith = ""
  /\ toldPending = {}

\* A handler that calls chrome.windows.create needs a free callback slot and a
\* tab id left for the window (the caps that keep the model finite).
CanCreate ==
  /\ Len(pendingCreates) < MaxPendingCreates
  /\ nextTabId + Len(pendingCreates) <= MaxTabId

CreateAllowed == postingApplicationTabId # undefined \/ CanCreate

\* A click on one of the three "Post with ..." context menus of an open tab.
ContextMenuClick ==
  \E sourceTab \in tabs, name \in ApplicationNames, text \in Texts \cup {Undefined} :
    /\ CreateAllowed
    /\ Commit(postingHandler(Store, Info(text), sourceTab, name))
    /\ ev' = Event("trigger", sourceTab, Undefined, Undefined, text, name)
    /\ pendingInfos' = IF Len(pendingCreates') > Len(pendingCreates)
                       THEN Append(pendingInfos, SelectedText(text)) ELSE pendingInfos
    /\ toldPending' = Told(toldPending, out')
    /\ UNCHANGED <<tabs, nextTabId, url, opener, openedWith>>

\* The content script of an open tab sends {ask: "newPost"}.
NewPostRequest ==
  \E t \in tabs :
    /\ CreateAllowed
    /\ Commit(onMessage(Store, Request(Undefined, Undefined, "newPost"), Sender(t)))
    /\ ev' = Event("trigger", t, Undefined, Undefined, Undefined, "ZeroBin")
    /\ pendingInfos' = IF Len(pendingCreates') > Len(pendingCreates)
                       THEN Append(pendingInfos, SelectedText(Undefined)) ELSE pendingInfos
    /\ toldPending' = Told(toldPending, out')
    /\ UNCHANGED <<tabs, nextTabId, url, opener, openedWith>>

\* The browser has opened a requested window and runs its callback.  The
\* callbacks of two requests complete in either order.
WindowCreated ==
  \E i \in 1..Len(pendingCreates) :
    LET sourceTab == pendingCreates[i]
        tabId == nextTabId
    IN /\ Commit(windowCreated([Store EXCEPT !.pendingCreates = RemoveAt(@, i)],
                               sourceTab, tabId))
       /\ tabs' = tabs \cup {tabId}
       /\ nextTabId' = nextTabId + 1
       /\ url' = [t \in 1..tabId |-> IF t = tabId THEN ExtensionUrl ELSE url[t]]
       /\ opener' = [t \in DOMAIN opener \cup {tabId} |->
                       IF t = tabId THEN sourceTab ELSE opener[t]]
       /\ ev' = Event("created", tabId, Undefined, Undefined, Undefined, Undefined)
       /\ pendingInfos' = RemoveAt(pendingInfos, i)
       /\ openedWith' = pendingInfos[i]
       /\ toldPending' = Told(toldPending, out')

\* An open tab sends a message with a handler field.
MessageData(handler) ==
  IF handler = "messageSecret" THEN Secrets
  ELSE IF handler = "privlyUrl" THEN Urls
  ELSE {Undefined}

Message ==
  \E t \in tabs, handler \in Handlers :
    \E data \in MessageData(handler) :
      /\ Commit(onMessage(Store, Request(handler, data, Undefined), Sender(t)))
      /\ ev' = Event("message", t, handler, data, Undefined, Undefined)
      /\ toldPending' = Told(toldPending, out')
      /\ openedWith' = IF postingApplicationTabId' = undefined THEN "" ELSE openedWith
      /\ UNCHANGED <<tabs, nextTabId, url, opener, pendingInfos>>

\* A tab closes (by the user, or after chrome.tabs.remove) and the browser
\* delivers chrome.tabs.onRemoved for it.
TabClosed ==
  \E tabId \in tabs :
    /\ Commit(tabRemoved(Store, tabId))
    /\ tabs' = tabs \ {tabId}
    /\ ev' = Event("removed", tabId, Undefined, Undefined, Undefined, Undefined)
    /\ toldPending' = Told(toldPending, out') \ {tabId}
    /\ openedWith' = IF postingApplicationTabId' = undefined THEN "" ELSE openedWith
    /\ UNCHANGED <<nextTabId, url, opener, pendingInfos>>

Next ==
  \/ ContextMenuClick
  \/ NewPostRequest
  \/ WindowCreated
  \/ Message
  \/ TabClosed

Spec == Init /\ [][Next]_vars

\* ------------------------------------------------------------ vocabulary
TypeOK ==
  /\ postingResultTab \in TabIds \cup {undefined}
  /\ postingApplicationTabId \in TabIds \cup {undefined}
  /\ postingApplicationStartingValue \in Texts \cup {""}
  /\ messageSecret \in Secrets \cup {null}
  /\ localStorage \in {Undefined, DefaultPostingDomain, CustomPostingDomain}
  /\ Len(pendingCreates) <= MaxPendingCreates
  /\ tabs \subseteq TabIds
  /\ nextTabId \in 1..(MaxTabId + 1)

\* The session states of the specification, read off the two bound identifiers.
PENDING == postingResultTab # undefined \/ postingApplicationTabId # undefined
IDLE == postingResultTab = undefined /\ postingApplicationTabId = undefined

\* The last event was a trigger (a context-menu click or an {ask:"newPost"} request).
Triggered == ev.kind = "trigger"
\* The last event was a message with the given handler.
Received(handler) == ev.kind = "message" /\ ev.handler = handler
\* The last event was a privlyUrl message that was relayed to a host tab.
Relayed == Received("privlyUrl") /\ out # <<>>
\* The last event was the closure of a tab on which tabRemoved acted.
ClosureHandled == ev.kind = "removed" /\ out # <<>>
\* The posting tabs: the tabs opened by chrome.windows.create.
PostingTabs == DOMAIN opener
\* The selected text postingHandler stores for the last trigger.
TriggerText == IF ev.text # Undefined THEN ev.text ELSE ""

\* ----------------------------------------------------------------- claims

\* C1: a trigger received while the session is PENDING leaves postingResultTab,
\* postingApplicationTabId and postingApplicationStartingValue unchanged,
\* requests no posting window and only shows the warning notification.
C1_TriggerWhilePendingRejected ==
  [][(PENDING /\ Triggered')
       => /\ postingResultTab' = postingResultTab
          /\ postingApplicationTabId' = postingApplicationTabId
          /\ postingApplicationStartingValue' = postingApplicationStartingValue
          /\ pendingCreates' = pendingCreates
          /\ out' = <<Notification>>]_vars

\* A trigger carrying a text other than the stored one was rejected while a
\* post was pending.
C1_Witness ==
  /\ Triggered
  /\ PENDING
  /\ out = <<Notification>>
  /\ postingApplicationStartingValue # TriggerText
  /\ postingResultTab # ev.tab

\* C2 (as claimed): once a trigger has requested a posting window, a second
\* trigger arriving before that post has ended, the creation callback of the
\* first still outstanding included, is rejected: it requests no window and
\* leaves the starting content alone.
C2_SecondTriggerRejected ==
  [][((PENDING \/ pendingCreates # <<>>) /\ Triggered')
       => /\ pendingCreates' = pendingCreates
          /\ postingApplicationStartingValue' = postingApplicationStartingValue
          /\ out' = <<Notification>>]_vars

C4_ContentConfidentiality ==
  (Received("initialContent") /\ ev.tab # postingApplicationTabId)
    => /\ out # <<>>
       /\ \A i \in 1..Len(out) :
            /\ out[i].op = "sendResponse"
            /\ out[i].initialContent = ""

\* A tab other than the bound posting tab asked for the initial content while
\* a non-empty starting value was stored for the bound posting tab.
C4_Witness ==
  /\ Received("initialContent")
  /\ postingApplicationTabId # undefined
  /\ ev.tab # postingApplicationTabId
  /\ postingApplicationStartingValue # ""
  /\ out = <<ContentResponse(ev.tab, messageSecret, "", "sendInitialContent")>>

\* C5: while PENDING, the closure of the bound posting tab leaves the session
\* IDLE with {pendingPost: false} sent to the host tab, and the closure of the
\* bound host tab leaves the session IDLE with a remove issued for the posting tab.
C5_ClosureSymmetry ==
  [][(PENDING /\ ev'.kind = "removed")
       => /\ ev'.tab = postingApplicationTabId
             => IDLE' /\ out' = <<SendPending(postingResultTab, "false")>>
          /\ ev'.tab = postingResultTab
             => IDLE' /\ out' = <<TabsRemove(postingApplicationTabId)>>]_vars

\* The bound posting tab closed and its host, still open, was told.
C5_Witness ==
  /\ ev.kind = "removed"
  /\ ev.tab \in PostingTabs
  /\ IDLE
  /\ Len(out) = 1
  /\ out[1] = SendPending(opener[ev.tab], "false")
  /\ opener[ev.tab] \in tabs

\* C6: a privlyUrl message received while postingResultTab is set focuses the
\* host tab, then sends it {privlyUrl: data, pendingPost: false}, then issues a
\* remove for the sender tab, and leaves the session IDLE.
C6_ResultRelay ==
  [][(postingResultTab # undefined /\ Received("privlyUrl")')
       => /\ out' = <<TabsUpdate(postingResultTab),
                      SendPrivlyUrl(postingResultTab, ev'.data),
                      TabsRemove(ev'.tab)>>
          /\ IDLE']_vars

\* The posting tab delivered the second url to the host that opened it.
C6_Witness ==
  /\ Relayed
  /\ ev.tab \in PostingTabs
  /\ ev.data = "https://x/p/def"
  /\ out[2] = SendPrivlyUrl(opener[ev.tab], "https://x/p/def")
  /\ IDLE

\* C7 (as claimed): after the relay of a privlyUrl result and after the closure
\* of the bound posting tab or host tab, postingResultTab and
\* postingApplicationTabId are unset and postingApplicationStartingValue is "".
C7_FullReset ==
  (Relayed \/ ClosureHandled)
    => /\ postingResultTab = undefined
       /\ postingApplicationTabId = undefined
       /\ postingApplicationStartingValue = ""

\* C8 (as claimed): whenever a privlyUrl result is delivered to a host tab, the
\* sender of the message is the bound posting tab.
C8_SenderIsBoundApp ==
  [][Relayed' => ev'.tab = postingApplicationTabId]_vars

\* C8 (amended): whenever a privlyUrl result is delivered, it is delivered to
\* the bound host tab, which is the source tab of the trigger that opened the
\* bound posting tab; the sender is not checked and can be any tab.
C8_DeliveredToOriginatingHost ==
  [][Relayed'
       => /\ postingApplicationTabId \in PostingTabs
          /\ postingResultTab = opener[postingApplicationTabId]
          /\ \A i \in 1..Len(out') :
               out'[i].op \in {"tabs.update", "tabs.sendMessage"}
                 => out'[i].tab = opener[postingApplicationTabId]]_vars

\* A result sent by a tab that is not a posting tab was delivered to a host.
C8_Witness ==
  /\ Relayed
  /\ ev.tab \notin PostingTabs
  /\ out[2].op = "tabs.sendMessage"
  /\ out[2].tab # ev.tab

\* C9 (as claimed): postingApplicationTabId is set if and only if a posting
\* tab opened by a trigger is open.
C9_AppIdIffPostingTabOpen ==
  postingApplicationTabId # undefined <=> (PostingTabs \cap tabs # {})

\* C9 (amended): postingApplicationTabId is set only if it names a posting tab
\* opened by a trigger whose closure has not been handled; the converse does
\* not hold.
C9_AppIdOnlyIfPostingTabOpen ==
  postingApplicationTabId # undefined
    => /\ postingApplicationTabId \in PostingTabs
       /\ postingApplicationTabId \in tabs

\* A posting tab is bound and open after an earlier posting tab has closed.
C9_Witness ==
  /\ postingApplicationTabId \in PostingTabs \cap tabs
  /\ PostingTabs \ tabs # {}

\* C10 (as claimed): once the closure of a tab has been handled, the session
\* is never PENDING with that tab as host or posting tab, and no message is
\* sent to that tab.
C10_NoOrphanedPending ==
  /\ postingResultTab # undefined => postingResultTab \in tabs
  /\ postingApplicationTabId # undefined => postingApplicationTabId \in tabs
  /\ \A i \in 1..Len(out) :
       out[i].op = "tabs.sendMessage" => out[i].tab \in tabs

\* C11: a privlyUrl message received while postingResultTab is unset is
\* ignored: no tab is focused, messaged or removed, and postingResultTab,
\* postingApplicationTabId, postingApplicationStartingValue and messageSecret
\* are unchanged.
C11_ResultWithoutHostIgnored ==
  [][(postingResultTab = undefined /\ Received("privlyUrl")')
       => /\ out' = <<>>
          /\ postingResultTab' = postingResultTab
          /\ postingApplicationTabId' = postingApplicationTabId
          /\ postingApplicationStartingValue' = postingApplicationStartingValue
          /\ messageSecret' = messageSecret]_vars

\* A posting tab sent its result while its window's session was not recorded:
\* a creation callback is still in flight and nothing is bound.
C11_Witness ==
  /\ Received("privlyUrl")
  /\ ev.tab \in PostingTabs
  /\ out = <<>>
  /\ IDLE
  /\ pendingCreates # <<>>
  /\ messageSecret # null

\* C12: a messageSecret message of a tab outside the extension's namespace is
\* ignored: messageSecret is unchanged and no listener replies.
C12_ForeignSecretIgnored ==
  [][(Received("messageSecret")' /\ url[ev'.tab] # ExtensionUrl)
       => /\ messageSecret' = messageSecret
          /\ out' = <<>>]_vars

\* A web tab tried to register a token other than the registered one.
C12_Witness ==
  /\ Received("messageSecret")
  /\ url[ev.tab] = WebUrl
  /\ messageSecret \in Secrets
  /\ messageSecret # ev.data
  /\ out = <<>>

\* C13 (as claimed): a trigger from IDLE requests exactly one posting window,
\* and once the creation of a window completes the session holds the trigger's
\* source tab, the new tab's id and the trigger's selected text, and the source
\* tab has been sent {pendingPost: true}.
C13_TriggerFromIdle ==
  /\ (Triggered /\ IDLE /\ out # <<Notification>>)
       => /\ out = <<WindowsCreate(ev.app)>>
          /\ postingApplicationStartingValue = pendingInfos[Len(pendingInfos)]
  /\ ev.kind = "created"
       => /\ postingResultTab = opener[ev.tab]
          /\ postingApplicationTabId = ev.tab
          /\ postingApplicationStartingValue = openedWith
          /\ out = <<SendPending(opener[ev.tab], "true")>>

\* C14 (as claimed): an initialContent request of the bound posting tab is
\* answered by both replying listeners with the current secret and the text
\* selected at the trigger that opened that posting tab.
C14_InitialContentOfOpeningTrigger ==
  (Received("initialContent") /\ ev.tab = postingApplicationTabId)
    => out = <<ContentResponse(ev.tab, messageSecret, openedWith,
                               "initializeMessagePathway"),
               ContentResponse(ev.tab, messageSecret, openedWith,
                               "sendInitialContent")>>

\* C15: a closure or a privlyUrl message that arrives when the session is
\* already IDLE sends no message, removes no tab and leaves the session IDLE
\* with its starting value as it was.
C15_IdempotentTeardown ==
  [][(IDLE /\ (ev'.kind = "removed" \/ Received("privlyUrl")'))
       => /\ out' = <<>>
          /\ IDLE'
          /\ postingApplicationStartingValue' = postingApplicationStartingValue
          /\ pendingCreates' = pendingCreates]_vars

\* The only posting tab ever opened closed after a relay had already cleared
\* the session (its host is still open and the starting value was not reset).
C15_Witness ==
  /\ ev.kind = "removed"
  /\ PostingTabs = {ev.tab}
  /\ opener[ev.tab] \in tabs
  /\ pendingCreates = <<>>
  /\ postingApplicationStartingValue # ""
  /\ IDLE
  /\ out = <<>>

\* C16: the session goes from PENDING to IDLE only by a privlyUrl message or
\* the closure of the host tab or the posting tab; while PENDING a trigger, a
\* messageSecret or initialContent message and the closure of any other tab,
\* and while IDLE any closure, leave postingResultTab, postingApplicationTabId
\* and postingApplicationStartingValue unchanged and send the host nothing.
C16_OtherEventsKeepSession ==
  [][/\ (PENDING /\ IDLE')
          => \/ Received("privlyUrl")'
             \/ /\ ev'.kind = "removed"
                /\ ev'.tab \in {postingResultTab, postingApplicationTabId}
     /\ (\/ /\ PENDING
            /\ \/ Triggered'
               \/ Received("messageSecret")'
               \/ Received("initialContent")'
               \/ /\ ev'.kind = "removed"
                  /\ ev'.tab \notin {postingResultTab, postingApplicationTabId}
         \/ IDLE /\ ev'.kind = "removed")
          => /\ postingResultTab' = postingResultTab
             /\ postingApplicationTabId' = postingApplicationTabId
             /\ postingApplicationStartingValue' = postingApplicationStartingValue
             /\ \A i \in 1..Len(out') : out'[i].op # "tabs.sendMessage"]_vars

\* A tab that is neither the host nor the posting tab closed during a pending
\* post, and the post is still pending.
C16_Witness ==
  /\ ev.kind = "removed"
  /\ postingResultTab \in tabs
  /\ postingApplicationTabId \in tabs
  /\ postingApplicationStartingValue # ""
  /\ out = <<>>

\* C17: messageSecret changes only in a messageSecret message of a tab of the
\* extension's namespace; triggers, creation callbacks, privlyUrl relays,
\* initialContent requests and closures leave it alone.
C17_SecretReused ==
  [][messageSecret' # messageSecret
       => Received("messageSecret")' /\ url[ev'.tab] = ExtensionUrl]_vars

\* A second posting window was bound while the secret registered by the first
\* one is still in place.
C17_Witness ==
  /\ ev.kind = "created"
  /\ Cardinality(PostingTabs) = 2
  /\ messageSecret \in Secrets

\* C18: postingResultTab and postingApplicationTabId are both set or both unset.
C18_BothOrNeither ==
  (postingResultTab = undefined) <=> (postingApplicationTabId = undefined)

\* Both are set by a creation callback that replaced an earlier binding.
C18_Witness ==
  /\ ev.kind = "created"
  /\ postingResultTab # undefined
  /\ postingApplicationTabId # undefined
  /\ \E t \in (PostingTabs \cap tabs) \ {postingApplicationTabId} :
       opener[t] # postingResultTab

\* C19 (as claimed): when the session is IDLE and no creation callback is in
\* flight, no open tab is left with {pendingPost: true} as the last word.
C19_HostViewMatchesSession ==
  (IDLE /\ pendingCreates = <<>>) => toldPending \cap tabs = {}

\* C20: a result is delivered only from a bound session and unbinds it, and
\* only a creation callback binds a session again; so a privlyUrl message
\* that follows a relay delivers nothing and removes no tab.
C20_OneResultPerPost ==
  [][/\ Relayed' => (postingResultTab # undefined /\ postingResultTab' = undefined)
     /\ (postingResultTab = undefined /\ postingResultTab' # undefined)
          => ev'.kind = "created"
     /\ (Relayed /\ Received("privlyUrl")') => out' = <<>>]_vars

\* A second privlyUrl message arrived after the relay of the first (the
\* starting value of the relayed post is still stored) and delivered nothing.
C20_Witness ==
  /\ Received("privlyUrl")
  /\ out = <<>>
  /\ IDLE
  /\ pendingCreates = <<>>
  /\ PostingTabs # {}
  /\ postingApplicationStartingValue # ""
  /\ toldPending = {}

====
